---- MODULE Spec2Model ----
(***************************************************************************)
(* Model of mayaUsd/ufe/UsdConnectionHandler.cpp: createConnection and     *)
(* deleteConnection of the UFE connection handler, over a small USD        *)
(* shading document (authored attributes and their connection lists).      *)
(*                                                                         *)
(* Attribute names are sequences of namespace tokens: "inputs:in" is       *)
(* <<"inputs", "in">>, "outputs:mdl:surface" is                            *)
(* <<"outputs", "mdl", "surface">>.  An attribute path is a record         *)
(* [node, name].                                                           *)
(***************************************************************************)
EXTENDS Naturals, Sequences, FiniteSets, TLC

VARIABLES
    infoId,     \* node -> the shader identifier stored in its info:id
    sockets,    \* authored attributes of the document: path -> value type
    conns,      \* authored connection lists: path -> sequence of paths
    lastCall,   \* what the latest call of the handler did and returned
    nOps        \* number of calls made so far

vars == <<infoId, sockets, conns, lastCall, nOps>>

\* Number of handler calls explored from an initial document.
MaxOps == 2

----------------------------------------------------------------------------
\* The document's prims and the attribute handles a caller can pass.

Nodes == {"S", "M"}

\* UsdShadeMaterial(prim) is valid for material prims only (line 136, 138).
IsMaterial(node) == node = "M"

\* UsdShadeTokens: the three terminal names, and the universal render
\* context, which is the empty token.
surface == "surface"
volume == "volume"
displacement == "displacement"
universalRenderContext == <<>>

\* Faulty variant: an identifier without a definition resolves to a default
\* definition.
GetShaderNodeByIdentifierOrDefault(id) ==
    IF id = "mdlSurface" THEN "mdl" ELSE "glslfx"

\* SdrRegistry: identifier -> source type of the shader node definition.
NoDef == "NoDef"
ShaderIds == {"glslfxSurface", "mdlSurface", "unknownShader"}

GetShaderNodeByIdentifier(id) ==
    CASE id = "glslfxSurface" -> "glslfx"
      [] id = "mdlSurface"    -> "mdl"
      [] OTHER                -> NoDef

\* Names of the attributes the front end hands to the handler.
ArgNames(node) ==
    IF node = "M"
    THEN { <<"inputs", "in">>, <<"outputs", surface>>, <<"outputs", volume>> }
    ELSE { <<"inputs", "in">>, <<"outputs", surface>>, <<"foo">> }

\* Value type of the attribute behind a handle (usdAttributeType()).
usdAttributeType(name) ==
    CASE name = <<"inputs", "in">> -> "float"
      [] name = <<"foo">>          -> "int"
      [] OTHER                     -> "token"

UsdRunTimeId == "USD"
OtherRunTimeId == "Maya-DG"

Null == [kind |-> "null"]

Attr(rt, node, name) ==
    [kind |-> "attr", runTimeId |-> rt, node |-> node, name |-> name]

UsdArgs ==
    UNION { { Attr(UsdRunTimeId, n, nm) : nm \in ArgNames(n) } : n \in Nodes }

ForeignArgs == { Attr(OtherRunTimeId, "S", <<"outputs", surface>>) }

Args == UsdArgs \cup ForeignArgs \cup {Null}

\* UsdAttribute::GetPath of the attribute behind a handle.
GetPath(a) == [node |-> a.node, name |-> a.name]

NoPath == [node |-> "none", name |-> <<>>]

----------------------------------------------------------------------------
\* Faulty variant: the runtime identifier of the scene item is not compared.
usdAttrFromUfeAttrAnyRuntime(a) == a.kind # "null"

\* usdAttrFromUfeAttr (lines 37-52): TRUE when the result is non-null.
\* A diagnostic is reported exactly when it is null.
usdAttrFromUfeAttr(a) ==
    IF a.kind = "null" THEN FALSE
    ELSE a.runTimeId = UsdRunTimeId

\* UsdAttribute::GetConnections: the authored list, empty when none.
GetConnections(cn, p) == IF p \in DOMAIN cn THEN cn[p] ELSE <<>>

\* isConnected (lines 54-66) on two attribute paths.
isConnected(cn, srcPath, dstPath) ==
    \E i \in 1..Len(GetConnections(cn, dstPath)) :
        GetConnections(cn, dstPath)[i] = srcPath

\* UsdShadeUtils::GetBaseNameAndType (lines 108-109, 114-115): strips the
\* "inputs:" or "outputs:" prefix; any other name is of type Invalid and is
\* its own base name.
GetBaseNameAndType(name) ==
    IF Len(name) > 1 /\ Head(name) = "inputs"
    THEN [base |-> Tail(name), type |-> "Input"]
    ELSE IF Len(name) > 1 /\ Head(name) = "outputs"
    THEN [base |-> Tail(name), type |-> "Output"]
    ELSE [base |-> name, type |-> "Invalid"]

\* Authoring an attribute that does not exist yet; an existing one is kept
\* with the type it has.
CreateAttribute(sk, p, type) ==
    IF p \in DOMAIN sk THEN sk ELSE (p :> type) @@ sk

\* Faulty variant: the destination is created as an output.
InputPathAsOutput(node, base) == [node |-> node, name |-> <<"outputs">> \o base]

\* UsdShadeConnectableAPI::CreateInput / CreateOutput (lines 118-132, 167).
InputPath(node, base) == [node |-> node, name |-> <<"inputs">> \o base]
OutputPath(node, base) == [node |-> node, name |-> <<"outputs">> \o base]

\* UsdShadeMaterial::Create{Surface,Volume,Displacement}Output(renderContext)
\* (lines 159-165): outputs:<renderContext>:<terminal>, of type token; the
\* universal render context adds no namespace.
TerminalPath(node, renderContext, terminal) ==
    [node |-> node, name |-> <<"outputs">> \o renderContext \o <<terminal>>]

\* Faulty variant: the legacy source type is passed through unchanged.
RenderContextVerbatim(sourceType) == <<sourceType>>

\* Lines 156-158.
RenderContext(sourceType) ==
    IF sourceType = "glslfx" THEN universalRenderContext ELSE <<sourceType>>

\* UsdShadeConnectableAPI::ConnectToSource (lines 122, 126, 133, 169): the
\* default modification replaces the destination's connection list by the
\* source.  On a stage that accepts edits the call succeeds.
ConnectToSource(cn, dstSock, srcSock) == (dstSock :> <<srcSock>>) @@ cn

\* A sequence without the elements equal to x.
RECURSIVE Without(_, _)
Without(s, x) ==
    IF s = <<>> THEN <<>>
    ELSE IF Head(s) = x THEN Without(Tail(s), x)
    ELSE <<Head(s)>> \o Without(Tail(s), x)

\* Faulty variant: the two attributes are passed in the handler's order,
\* source first.
DisconnectSourceSwapped(sk, cn, dstPath, srcPath) ==
    IF dstPath \in DOMAIN sk
    THEN (srcPath :> Without(GetConnections(cn, srcPath), dstPath)) @@ cn
    ELSE (srcPath :> <<>>) @@ cn

\* Faulty variant: the source is removed from every connection list.
DisconnectSourceEverywhere(sk, cn, dstPath, srcPath) ==
    [p \in DOMAIN cn |-> Without(cn[p], srcPath)]

\* UsdShadeConnectableAPI::DisconnectSource(shadingAttr, sourceAttr)
\* (lines 189-190): removes the source's path from the list, or clears the
\* list when the source attribute is not authored.
DisconnectSource(sk, cn, dstPath, srcPath) ==
    IF srcPath \in DOMAIN sk
    THEN (dstPath :> Without(GetConnections(cn, dstPath), srcPath)) @@ cn
    ELSE (dstPath :> <<>>) @@ cn

----------------------------------------------------------------------------
\* What a call did: its arguments and return value, the number of
\* diagnostics it reported (TF_RUNTIME_ERROR), the value of isConnected at
\* lines 95 and 185, the sockets handed to the library's connect or
\* disconnect, and whether those were called.
Call(op, src, dst, result, diags, before, srcSock, dstSock, connect, disconnect) ==
    [ op |-> op, src |-> src, dst |-> dst, result |-> result,
      diagnostics |-> diags, connectedBefore |-> before,
      srcSocket |-> srcSock, dstSocket |-> dstSock,
      connectCalled |-> connect, disconnectCalled |-> disconnect ]

Outcome(sk, cn, call) == [sockets |-> sk, conns |-> cn, call |-> call]

\* Diagnostics of the two coercions (lines 91-92, 181-182).
CoerceDiagnostics(src, dst) ==
    (IF usdAttrFromUfeAttr(src) THEN 0 ELSE 1)
  + (IF usdAttrFromUfeAttr(dst) THEN 0 ELSE 1)

\* Lines 138-140: the destination is a terminal of a material.
IsMaterialTerminal(node, base) ==
    /\ IsMaterial(node)
    /\ base = <<surface>> \/ base = <<volume>> \/ base = <<displacement>>

\* Lines 159-165: the terminal output of the material for the base name.
CreateTerminalOutput(node, base, renderContext) ==
    IF base = <<surface>> THEN TerminalPath(node, renderContext, surface)
    ELSE IF base = <<volume>> THEN TerminalPath(node, renderContext, volume)
    ELSE TerminalPath(node, renderContext, displacement)

\* Lines 117-171 of createConnection: both attributes are valid and not
\* connected yet.
Connect(src, dst) ==
    LET s == GetBaseNameAndType(src.name)
        d == GetBaseNameAndType(dst.name)
    IN
    IF s.type = "Input"
    THEN \* lines 118-127
         LET srcInput == InputPath(src.node, s.base)
             sk1 == CreateAttribute(sockets, srcInput, usdAttributeType(src.name))
             dstSock == IF d.type = "Input" THEN InputPath(dst.node, d.base)
                        ELSE OutputPath(dst.node, d.base)
             sk2 == CreateAttribute(sk1, dstSock, usdAttributeType(dst.name))
         IN Outcome(sk2, ConnectToSource(conns, dstSock, srcInput),
                    Call("create", src, dst, TRUE, 0, FALSE,
                         srcInput, dstSock, TRUE, FALSE))
    ELSE \* lines 129-170
         LET srcOutput == OutputPath(src.node, s.base)
             sk1 == CreateAttribute(sockets, srcOutput, usdAttributeType(src.name))
         IN
         IF d.type = "Input"
         THEN LET dstInput == InputPath(dst.node, d.base)
                  sk2 == CreateAttribute(sk1, dstInput, usdAttributeType(dst.name))
              IN Outcome(sk2, ConnectToSource(conns, dstInput, srcOutput),
                         Call("create", src, dst, TRUE, 0, FALSE,
                              srcOutput, dstInput, TRUE, FALSE))
         ELSE IF IsMaterialTerminal(dst.node, d.base)
         THEN LET srcShaderNodeDef == GetShaderNodeByIdentifier(infoId[src.node])
              IN IF srcShaderNodeDef = NoDef
                 THEN Outcome(sk1, conns,
                              Call("create", src, dst, FALSE, 1, FALSE,
                                   srcOutput, NoPath, FALSE, FALSE))
                 ELSE LET dstOutput == CreateTerminalOutput(dst.node, d.base,
                                           RenderContext(srcShaderNodeDef))
                          sk2 == CreateAttribute(sk1, dstOutput, "token")
                      IN Outcome(sk2, ConnectToSource(conns, dstOutput, srcOutput),
                                 Call("create", src, dst, TRUE, 0, FALSE,
                                      srcOutput, dstOutput, TRUE, FALSE))
         ELSE LET dstOutput == OutputPath(dst.node, d.base)
                  sk2 == CreateAttribute(sk1, dstOutput, usdAttributeType(dst.name))
              IN Outcome(sk2, ConnectToSource(conns, dstOutput, srcOutput),
                         Call("create", src, dst, TRUE, 0, FALSE,
                              srcOutput, dstOutput, TRUE, FALSE))

\* UsdConnectionHandler::createConnection (lines 87-175).
createConnection(src, dst) ==
    IF ~usdAttrFromUfeAttr(src) \/ ~usdAttrFromUfeAttr(dst)
    THEN Outcome(sockets, conns,
                 Call("create", src, dst, FALSE, CoerceDiagnostics(src, dst),
                      FALSE, NoPath, NoPath, FALSE, FALSE))
    ELSE IF isConnected(conns, GetPath(src), GetPath(dst))
    THEN Outcome(sockets, conns,
                 Call("create", src, dst, FALSE, 0, TRUE,
                      NoPath, NoPath, FALSE, FALSE))
    ELSE Connect(src, dst)

\* Faulty variant: the pair is not tested for being connected.
deleteConnectionUnchecked(src, dst) ==
    IF ~usdAttrFromUfeAttr(src) \/ ~usdAttrFromUfeAttr(dst)
    THEN Outcome(sockets, conns,
                 Call("delete", src, dst, FALSE, CoerceDiagnostics(src, dst),
                      FALSE, NoPath, NoPath, FALSE, FALSE))
    ELSE Outcome(sockets,
                 DisconnectSource(sockets, conns, GetPath(dst), GetPath(src)),
                 Call("delete", src, dst, TRUE, 0,
                      isConnected(conns, GetPath(src), GetPath(dst)),
                      GetPath(src), GetPath(dst), FALSE, TRUE))

\* UsdConnectionHandler::deleteConnection (lines 177-191).
deleteConnection(src, dst) ==
    IF ~usdAttrFromUfeAttr(src) \/ ~usdAttrFromUfeAttr(dst)
    THEN Outcome(sockets, conns,
                 Call("delete", src, dst, FALSE, CoerceDiagnostics(src, dst),
                      FALSE, NoPath, NoPath, FALSE, FALSE))
    ELSE IF ~isConnected(conns, GetPath(src), GetPath(dst))
    THEN Outcome(sockets, conns,
                 Call("delete", src, dst, FALSE, 0, FALSE,
                      NoPath, NoPath, FALSE, FALSE))
    ELSE Outcome(sockets,
                 DisconnectSource(sockets, conns, GetPath(dst), GetPath(src)),
                 Call("delete", src, dst, TRUE, 0, TRUE,
                      GetPath(src), GetPath(dst), FALSE, TRUE))

----------------------------------------------------------------------------
NoCall == Call("none", Null, Null, FALSE, 0, FALSE, NoPath, NoPath, FALSE, FALSE)

Path(node, name) == [node |-> node, name |-> name]

\* The documents a session starts from: an empty network, or a loaded one
\* in which the material's input lists two upstream sources, the second of
\* them an attribute that is not authored, and the material's surface
\* terminal is fed by the shader.
EmptyDocument == [sockets |-> << >>, conns |-> << >>]

LoadedDocument ==
    [ sockets |->
          (Path("M", <<"inputs", "in">>) :> "float")
       @@ (Path("M", <<"outputs", surface>>) :> "token")
       @@ (Path("S", <<"outputs", surface>>) :> "token"),
      conns |->
          (Path("M", <<"inputs", "in">>) :>
               << Path("S", <<"outputs", surface>>), Path("S", <<"foo">>) >>)
       @@ (Path("M", <<"outputs", surface>>) :>
               << Path("S", <<"outputs", surface>>) >>) ]

Init ==
    /\ \E id \in ShaderIds : infoId = [n \in Nodes |-> IF n = "S" THEN id ELSE ""]
    /\ \E doc \in {EmptyDocument, LoadedDocument} :
          sockets = doc.sockets /\ conns = doc.conns
    /\ lastCall = NoCall
    /\ nOps = 0

Apply(out) ==
    /\ sockets' = out.sockets
    /\ conns' = out.conns
    /\ lastCall' = out.call
    /\ nOps' = nOps + 1
    /\ UNCHANGED infoId

CreateConnection ==
    /\ nOps < MaxOps
    /\ \E src \in Args, dst \in Args : Apply(createConnection(src, dst))

DeleteConnection ==
    /\ nOps < MaxOps
    /\ \E src \in Args, dst \in Args : Apply(deleteConnection(src, dst))

Next == CreateConnection \/ DeleteConnection

Spec == Init /\ [][Next]_vars

----------------------------------------------------------------------------
\* Vocabulary of the properties, stated on the handles and the document
\* alone.

\* Both arguments of the latest call are attributes of the USD runtime.
ValidHandle(a) == a.kind = "attr" /\ a.runTimeId = UsdRunTimeId

ValidPair(c) == ValidHandle(c.src) /\ ValidHandle(c.dst)

\* The direction a qualified name declares.
Direction(a) == GetBaseNameAndType(a.name).type

Directed(c) ==
    /\ ValidPair(c)
    /\ Direction(c.src) \in {"Input", "Output"}
    /\ Direction(c.dst) \in {"Input", "Output"}

\* b's upstream connection paths contain a's path.
Feeds(cn, a, b) ==
    \E i \in DOMAIN GetConnections(cn, GetPath(b)) :
        GetConnections(cn, GetPath(b))[i] = GetPath(a)

\* The latest call has a source Output and a destination Output that is a
\* terminal of a material.
TerminalCall(c) ==
    /\ ValidPair(c)
    /\ Len(c.src.name) > 1 /\ Head(c.src.name) = "outputs"
    /\ c.dst.node = "M"
    /\ c.dst.name \in { <<"outputs", surface>>, <<"outputs", volume>>,
                        <<"outputs", displacement>> }

RegisteredIds == {"glslfxSurface", "mdlSurface"}

SourceTypeOf(id) == IF id = "glslfxSurface" THEN "glslfx" ELSE "mdl"

\* Every connection list is the same before and after the step.
SameConnections ==
    \/ conns' = conns
    \/ \A p \in DOMAIN conns \cup DOMAIN conns' :
          GetConnections(conns', p) = GetConnections(conns, p)

\* Every connection list but that of attribute q is the same before and
\* after the step.
SameConnectionsBut(q) ==
    \/ conns' = conns
    \/ \A p \in (DOMAIN conns \cup DOMAIN conns') \ {q} :
          GetConnections(conns', p) = GetConnections(conns, p)

SameDocument == sockets' = sockets /\ SameConnections

\* The step repeats the call just made, with the other operation or the
\* same one.
Repeats(before, op) ==
    /\ before.op = "create" /\ before.result
    /\ lastCall'.op = op
    /\ lastCall'.src = before.src /\ lastCall'.dst = before.dst

----------------------------------------------------------------------------
\* C1 (as claimed): whenever createConnection(a, b) on two attributes with a
\* direction returns true, isConnected(a, b) is true right after it.
C1_CreateRoundTrip ==
    (lastCall.op = "create" /\ lastCall.result /\ Directed(lastCall))
        => Feeds(conns, lastCall.src, lastCall.dst)

\* C2 (as claimed): createConnection(a, b) called again right after it
\* returned true returns false and changes nothing in the document.
C2_CreateIdempotent ==
    [][ (Repeats(lastCall, "create") /\ Directed(lastCall))
            => (~lastCall'.result /\ SameDocument) ]_vars

\* C3: a call with a null argument or one of a foreign runtime returns false
\* and leaves the document unchanged, whatever the other argument is.
C3_InvalidRejected ==
    [][ (lastCall'.op \in {"create", "delete"} /\ ~ValidPair(lastCall'))
            => (~lastCall'.result /\ SameDocument
                /\ ~lastCall'.connectCalled /\ ~lastCall'.disconnectCalled) ]_vars

C3_Witness ==
    /\ lastCall.op = "delete"
    /\ lastCall.src \in ForeignArgs
    /\ ValidHandle(lastCall.dst)
    /\ Feeds(conns, lastCall.src, lastCall.dst)
    /\ ~lastCall.result

\* C4: deleteConnection on two valid attributes that are not connected
\* returns false, does not call the disconnect operation and leaves the
\* document unchanged.
C4_DeleteAbsent ==
    [][ (/\ lastCall'.op = "delete"
         /\ ValidPair(lastCall')
         /\ ~Feeds(conns, lastCall'.src, lastCall'.dst))
            => (~lastCall'.result /\ ~lastCall'.disconnectCalled /\ SameDocument) ]_vars

C4_Witness ==
    /\ lastCall.op = "delete"
    /\ ValidPair(lastCall)
    /\ ~lastCall.connectedBefore
    /\ \E p \in DOMAIN conns : conns[p] # << >>

\* C5: whenever deleteConnection(a, b) returns true, a's path is no longer
\* among b's upstream connection paths.
C5_DeleteRoundTrip ==
    (lastCall.op = "delete" /\ lastCall.result)
        => ~Feeds(conns, lastCall.src, lastCall.dst)

C5_Witness ==
    /\ lastCall.op = "delete"
    /\ lastCall.result
    /\ GetConnections(conns, GetPath(lastCall.dst)) # << >>

TerminalName(name) ==
    /\ Len(name) > 1
    /\ Head(name) = "outputs"
    /\ name[Len(name)] \in {surface, volume, displacement}

UnregisteredTerminalCall(c) ==
    /\ c.op = "create"
    /\ TerminalCall(c)
    /\ infoId[c.src.node] \notin RegisteredIds

\* C7 (as claimed): createConnection on a material terminal destination
\* whose source shader identifier is not registered returns false, reports a
\* diagnostic, creates no terminal output socket on the material and adds
\* no upstream connection.
C7_UnregisteredAsClaimed ==
    [][ UnregisteredTerminalCall(lastCall')
            => (/\ ~lastCall'.result
                /\ lastCall'.diagnostics > 0
                /\ \A p \in DOMAIN sockets' \ DOMAIN sockets :
                      ~(p.node = lastCall'.dst.node /\ TerminalName(p.name))
                /\ SameConnections) ]_vars

\* C7 (amended): such a call returns false and adds no upstream connection;
\* it reports a diagnostic unless the pair is already connected, and the
\* only socket it can create is the source attribute's own Output socket.
C7_Unregistered ==
    [][ UnregisteredTerminalCall(lastCall')
            => (/\ ~lastCall'.result
                /\ ~lastCall'.connectCalled
                /\ SameConnections
                /\ (lastCall'.diagnostics > 0)
                      <=> ~Feeds(conns, lastCall'.src, lastCall'.dst)
                /\ DOMAIN sockets' \subseteq DOMAIN sockets \cup {GetPath(lastCall'.src)}
                /\ \A p \in DOMAIN sockets : sockets'[p] = sockets[p]
                /\ Feeds(conns, lastCall'.src, lastCall'.dst) => sockets' = sockets) ]_vars

C7_Witness ==
    /\ UnregisteredTerminalCall(lastCall)
    /\ lastCall.src.node = "S"
    /\ lastCall.diagnostics = 1
    /\ GetPath(lastCall.src) \in DOMAIN sockets
    /\ \A p \in DOMAIN sockets : p.node = "M" => ~TerminalName(p.name)

\* C8: createConnection from an Output s on S to an Input d on D that are
\* not connected leaves an Output socket s on S and an Input socket d on D,
\* created only if absent and typed by the attribute's value type, makes
\* S.s an upstream of D.d and returns the result of the connect operation.
C8_StandardConnection ==
    [][ (/\ lastCall'.op = "create"
         /\ ValidPair(lastCall')
         /\ Direction(lastCall'.src) = "Output"
         /\ Direction(lastCall'.dst) = "Input"
         /\ ~Feeds(conns, lastCall'.src, lastCall'.dst))
            => LET a == GetPath(lastCall'.src)
                   b == GetPath(lastCall'.dst)
               IN /\ lastCall'.connectCalled
                  /\ lastCall'.result
                  /\ lastCall'.srcSocket = a
                  /\ lastCall'.dstSocket = b
                  /\ DOMAIN sockets' = DOMAIN sockets \cup {a, b}
                  /\ \A p \in DOMAIN sockets : sockets'[p] = sockets[p]
                  /\ a \notin DOMAIN sockets
                        => sockets'[a] = usdAttributeType(lastCall'.src.name)
                  /\ b \notin DOMAIN sockets
                        => sockets'[b] = usdAttributeType(lastCall'.dst.name)
                  /\ Feeds(conns', lastCall'.src, lastCall'.dst) ]_vars

C8_Witness ==
    /\ lastCall.op = "create"
    /\ lastCall.result
    /\ lastCall.src = Attr(UsdRunTimeId, "M", <<"outputs", volume>>)
    /\ lastCall.dst = Attr(UsdRunTimeId, "S", <<"inputs", "in">>)
    /\ Feeds(conns, lastCall.src, lastCall.dst)

\* C9 (as claimed): deleteConnection(a, b) called right after
\* createConnection(a, b) returned true finds the pair connected, calls the
\* disconnect operation, and the attribute of b's node that the create
\* connected to a is no longer fed by a.
C9_UndoByDelete ==
    [][ (Repeats(lastCall, "delete") /\ Directed(lastCall))
            => (/\ lastCall'.connectedBefore
                /\ lastCall'.disconnectCalled
                /\ \A i \in DOMAIN GetConnections(conns', lastCall.dstSocket) :
                      GetConnections(conns', lastCall.dstSocket)[i]
                          # GetPath(lastCall'.src)) ]_vars

\* C10 (as claimed): a call changes the connection list of no attribute
\* other than the destination socket it connects or disconnects, and never
\* that of the source attribute.
C10_FrameAsClaimed ==
    [][ lastCall'.op \in {"create", "delete"}
            => (/\ SameConnectionsBut(lastCall'.dstSocket)
                /\ ValidPair(lastCall')
                      => GetConnections(conns', GetPath(lastCall'.src))
                           = GetConnections(conns, GetPath(lastCall'.src))) ]_vars

\* C10 (amended): a call changes the connection list of no attribute other
\* than the destination socket; it leaves the source attribute's list alone
\* unless the source attribute is that destination socket.
C10_Frame ==
    [][ lastCall'.op \in {"create", "delete"}
            => (/\ SameConnectionsBut(lastCall'.dstSocket)
                /\ (ValidPair(lastCall') /\ GetPath(lastCall'.src) # lastCall'.dstSocket)
                      => GetConnections(conns', GetPath(lastCall'.src))
                           = GetConnections(conns, GetPath(lastCall'.src))) ]_vars

C10_Witness ==
    /\ lastCall.op \in {"create", "delete"}
    /\ lastCall.result
    /\ \E p \in DOMAIN conns : p # lastCall.dstSocket /\ conns[p] # << >>
    /\ GetPath(lastCall.src) \in DOMAIN conns

====
